---- MODULE Spec2Model ----
(***************************************************************************)
(* The concurrent service core of the TPM-backed SSH agent (agent.go):     *)
(* the accept loop, the per-connection handler tasks, the signing lock,    *)
(* the shutdown signal with its join group, and the SIGHUP handler loop.   *)
(***************************************************************************)
EXTENDS Integers, Sequences, FiniteSets, TLC

\* Number of client connections that may ever be accepted.
MaxConns == 2
\* Number of SIGHUP signals the environment delivers.
MaxSignals == 2

Conns == 1..MaxConns

(***************************************************************************)
(* Keys, blobs and the key file.                                           *)
(***************************************************************************)

\* ssh.PublicKey values: a type name and the key bytes.
KeyA == [type |-> "ecdsa-sha2-nistp256", data |-> <<1, 2>>]
\* Same type as KeyA, one byte of the key data differs.
KeyB == [type |-> "ecdsa-sha2-nistp256", data |-> <<1, 3>>]
\* Same key data as KeyA under another type name.
KeyC == [type |-> "ssh-rsa", data |-> <<1, 2>>]
NoKey == [type |-> "", data |-> <<>>]

\* Public keys a client may name in a request.
ReqKeys == {KeyA, KeyB, KeyC}
\* Public keys whose private part may be in the key file.
StoredKeys == {KeyA, KeyB}
\* agent.SignatureFlags values a client may send.
Flags == {0, 2}
\* Passphrases a client may send with Lock and Unlock.
Passphrases == {<<>>, <<1>>}

\* Key.Type(): the type name of a public key.
Type(pk) == pk.type

\* Key.Marshal(): the wire blob, the type name followed by the key bytes.
Marshal(pk) == <<pk.type>> \o pk.data

\* bytes.Equal: same length and the same byte at every index.
BytesEqual(x, y) ==
    /\ Len(x) = Len(y)
    /\ \A i \in 1..Len(x) : x[i] = y[i]

\* The deserialized key (KeyDescriptor) of a stored key.
Descriptor(pk) == [public |-> pk, private |-> "tpm"]
NoDescriptor == [public |-> NoKey, private |-> ""]

\* States of <data-home>/tpm-ssh-agent/ssh.key.
Files ==
    {[kind |-> "unreadable", key |-> NoDescriptor],
     [kind |-> "corrupt", key |-> NoDescriptor]}
    \cup {[kind |-> "key", key |-> Descriptor(pk)] : pk \in StoredKeys}

\* The key file the agent is started on in the signing specification.
StartFile == [kind |-> "key", key |-> Descriptor(KeyA)]

\* os.ReadFile of the key file.
ReadFile(f) ==
    IF f.kind = "unreadable"
    THEN [err |-> "read", b |-> [kind |-> "", key |-> NoDescriptor]]
    ELSE [err |-> "nil", b |-> f]

\* UnmarshalKey: the stored bytes parsed into a key descriptor.
UnmarshalKey(b) ==
    IF b.kind = "key"
    THEN [err |-> "nil", key |-> b.key]
    ELSE [err |-> "unmarshal", key |-> NoDescriptor]

\* Key.SSHPublicKey: the public key record derived from a descriptor.
SSHPublicKey(key) == [err |-> "nil", pk |-> key.public]

(***************************************************************************)
(* Results of the agent's operations.                                      *)
(***************************************************************************)

ErrOperationUnsupported == "operation unsupported"
ErrExtensionUnsupported == "agent: extension unsupported"
ErrNoMatch == "no private keys match the requested public key"
ErrPrepare == "failed to prepare signer"
ErrSign == "sign"

NoSig == [alg |-> "", blob |-> <<>>]

\* What a key-bearing call is about to return: the error, the agent.Key
\* records (List), the signers' public keys (Signers), the signature, and
\* whether the hardware signer was invoked.
NoOut == [err |-> "nil", keys |-> <<>>, signers |-> <<>>, sig |-> NoSig, hw |-> FALSE]

Failed(e) == [NoOut EXCEPT !.err = e]

\* A handler's current key-bearing call: the entry point the dispatcher
\* called (via), the method whose body runs (op), its arguments, the
\* position in the body and the pending result.
Idle == [via |-> "none", op |-> "none", key |-> NoKey, flags |-> 0,
         pc |-> "idle", out |-> NoOut]

VARIABLES
    mu,            \* a.mu: 0 when free, else the connection whose call holds it
    quit,          \* a.quit: TRUE once the channel is closed
    listener,      \* a.listener: "open" or "closed"
    wg,            \* a.wg: the WaitGroup counter
    proc,          \* the process: "running", "fatal" (log.Fatalln), "panic"
    servePc,       \* position of the accept loop (serve)
    acceptErr,     \* the error the last failed Accept returned
    quitAtErr,     \* a.quit was closed when that Accept failed (history)
    conn,          \* per connection: "none", "accepted", "serving", "done"
    connOpen,      \* per connection: the agent's end of the socket is open
    connEnd,       \* per connection: what ServeAgent returned
    logged,        \* per connection: serveConn logged the error
    lateAccept,    \* a connection was accepted after quit was closed
    call,          \* per connection: the key-bearing call in progress
    ret,           \* the error the most recent lock-free operation returned
    storage,       \* the key file
    sigBuf,        \* signals buffered in execAgent's channel c (capacity 1)
    nsig,          \* SIGHUPs delivered so far
    sigPc,         \* position of the SIGHUP handler goroutine inside Stop
    stopReturned,  \* number of Stop() calls that have returned
    waitPc         \* position of runAgent's a.Wait()

vars == <<mu, quit, listener, wg, proc, servePc, acceptErr, quitAtErr, conn,
          connOpen, connEnd, logged, lateAccept, call, ret, storage, sigBuf,
          nsig, sigPc, stopReturned, waitPc>>

serveVars == <<servePc, acceptErr, quitAtErr>>
connVars == <<conn, connOpen, connEnd, logged, lateAccept>>
stopVars == <<sigBuf, nsig, sigPc, stopReturned>>

\* No lock-free operation has returned yet.
NoRet == "none"

\* NewAgent followed by execAgent and runAgent: the listener is bound, the
\* join group counts the accept loop, the handler goroutine waits for a
\* signal and the main goroutine is inside a.Wait().
Init ==
    /\ mu = 0
    /\ quit = FALSE
    /\ listener = "open"
    /\ wg = 1
    /\ proc = "running"
    /\ servePc = "accept"
    /\ acceptErr = "nil"
    /\ quitAtErr = FALSE
    /\ conn = [c \in Conns |-> "none"]
    /\ connOpen = [c \in Conns |-> FALSE]
    /\ connEnd = [c \in Conns |-> "none"]
    /\ logged = [c \in Conns |-> FALSE]
    /\ lateAccept = FALSE
    /\ call = [c \in Conns |-> Idle]
    /\ ret = NoRet
    /\ storage \in Files
    /\ sigBuf = 0
    /\ nsig = 0
    /\ sigPc = "idle"
    /\ stopReturned = 0
    /\ waitPc = "waiting"

Running == proc = "running"

\* a.wg.Done(): a counter that would go negative panics.
WgDone ==
    IF wg > 0
    THEN wg' = wg - 1 /\ proc' = proc
    ELSE wg' = wg /\ proc' = "panic"


(***************************************************************************)
(* SigningCoordinator: the bodies of the key-bearing operations.           *)
(***************************************************************************)

\* ssh.NewSignerFromSigner(NewTPMSigner(key, a.tpm)): the signer bound to
\* a descriptor; its PublicKey() is the descriptor's public key.
NewSigner(key) == [pub |-> key.public]

\* signers going on with the zero descriptor when UnmarshalKey fails.
signersIgnoringUnmarshalError(f, build) ==
    LET r == ReadFile(f) IN
    IF r.err # "nil" THEN [err |-> r.err, list |-> <<>>]
    ELSE LET k == UnmarshalKey(r.b) IN
         IF build # "ok" THEN [err |-> ErrPrepare, list |-> <<>>]
         ELSE [err |-> "nil", list |-> <<NewSigner(k.key)>>]

\* Agent.signers: read the key file, deserialize it, build the one signer.
\* build is the outcome of ssh.NewSignerFromSigner.
signers(f, build) ==
    LET r == ReadFile(f) IN
    IF r.err # "nil" THEN [err |-> r.err, list |-> <<>>]
    ELSE LET k == UnmarshalKey(r.b) IN
         IF k.err # "nil" THEN [err |-> k.err, list |-> <<>>]
         ELSE IF build # "ok" THEN [err |-> ErrPrepare, list |-> <<>>]
         ELSE [err |-> "nil", list |-> <<NewSigner(k.key)>>]

\* The body of Agent.Signers after the lock is taken.
SignersResult(f, build) ==
    LET r == signers(f, build) IN
    IF r.err # "nil" THEN Failed(r.err)
    ELSE [NoOut EXCEPT !.signers = [i \in 1..Len(r.list) |-> r.list[i].pub]]

\* ListResult with the blob taken from the raw key bytes, not pk.Marshal().
ListResultRawBlob(f) ==
    LET r == ReadFile(f) IN
    IF r.err # "nil" THEN Failed(r.err)
    ELSE LET k == UnmarshalKey(r.b) IN
         IF k.err # "nil" THEN Failed(k.err)
         ELSE LET p == SSHPublicKey(k.key) IN
              IF p.err # "nil" THEN Failed(p.err)
              ELSE [NoOut EXCEPT
                      !.keys = <<[Format |-> Type(p.pk), Blob |-> p.pk.data]>>]

\* The body of Agent.List after the lock is taken.
ListResult(f) ==
    LET r == ReadFile(f) IN
    IF r.err # "nil" THEN Failed(r.err)
    ELSE LET k == UnmarshalKey(r.b) IN
         IF k.err # "nil" THEN Failed(k.err)
         ELSE LET p == SSHPublicKey(k.key) IN
              IF p.err # "nil" THEN Failed(p.err)
              ELSE [NoOut EXCEPT
                      !.keys = <<[Format |-> Type(p.pk), Blob |-> Marshal(p.pk)]>>]

\* s.(ssh.AlgorithmSigner).SignWithAlgorithm(rand.Reader, data, alg): the
\* hardware signer is invoked; hw is the outcome of the TPM operation.
SignWithAlgorithm(s, alg, hw) ==
    IF hw = "ok"
    THEN [NoOut EXCEPT !.sig = [alg |-> alg, blob |-> Marshal(s.pub)], !.hw = TRUE]
    ELSE [NoOut EXCEPT !.err = ErrSign, !.hw = TRUE]

\* SignLoop matching the requested key by its type name instead of its blob.
RECURSIVE SignLoopByType(_, _, _, _)
SignLoopByType(ss, i, key, hw) ==
    IF i > Len(ss) THEN Failed(ErrNoMatch)
    ELSE IF Type(ss[i].pub) # Type(key)
         THEN SignLoopByType(ss, i + 1, key, hw)
         ELSE SignWithAlgorithm(ss[i], Type(key), hw)

\* The loop of Agent.SignWithFlags over the signers, from index i on.
RECURSIVE SignLoop(_, _, _, _)
SignLoop(ss, i, key, hw) ==
    IF i > Len(ss) THEN Failed(ErrNoMatch)
    ELSE IF ~BytesEqual(Marshal(ss[i].pub), Marshal(key))
         THEN SignLoop(ss, i + 1, key, hw)
         ELSE SignWithAlgorithm(ss[i], Type(key), hw)

\* The body of Agent.SignWithFlags after the lock is taken.
SignWithFlagsResult(f, key, flags, build, hw) ==
    LET r == signers(f, build) IN
    IF r.err # "nil" THEN Failed(r.err)
    ELSE SignLoop(r.list, 1, key, hw)

Outcomes == {"ok", "fail"}

\* The handler of connection c is inside agent.ServeAgent, between requests.
Ready(c) == Running /\ conn[c] = "serving" /\ call[c].pc = "idle"

\* The frame of a step of a key-bearing call.
CallFrame ==
    UNCHANGED <<quit, listener, wg, proc, serveVars, connVars, ret, storage,
                stopVars, waitPc>>

\* The dispatcher calls a.List(): the call reaches a.mu.Lock().
List(c) ==
    /\ Ready(c)
    /\ call' = [call EXCEPT ![c] = [Idle EXCEPT !.via = "List", !.op = "List",
                                                  !.pc = "lock"]]
    /\ UNCHANGED mu
    /\ CallFrame

\* A caller calls a.Signers(): the call reaches a.mu.Lock().
Signers(c) ==
    /\ Ready(c)
    /\ call' = [call EXCEPT ![c] = [Idle EXCEPT !.via = "Signers", !.op = "Signers",
                                                  !.pc = "lock"]]
    /\ UNCHANGED mu
    /\ CallFrame

\* The dispatcher calls a.SignWithFlags(key, data, flags).
SignWithFlags(c, key, flags) ==
    /\ Ready(c)
    /\ call' = [call EXCEPT ![c] = [Idle EXCEPT !.via = "SignWithFlags",
                                                  !.op = "SignWithFlags",
                                                  !.key = key, !.flags = flags,
                                                  !.pc = "lock"]]
    /\ UNCHANGED mu
    /\ CallFrame

\* A caller calls a.Sign(key, data), which is a.SignWithFlags(key, data, 0).
Sign(c, key) ==
    /\ Ready(c)
    /\ call' = [call EXCEPT ![c] = [Idle EXCEPT !.via = "Sign",
                                                  !.op = "SignWithFlags",
                                                  !.key = key, !.flags = 0,
                                                  !.pc = "lock"]]
    /\ UNCHANGED mu
    /\ CallFrame

\* MuLock with List entering its body without taking the lock.
MuLockNotInList(c) ==
    /\ Running
    /\ call[c].pc = "lock"
    /\ call[c].op = "List" \/ mu = 0
    /\ mu' = IF call[c].op = "List" THEN mu ELSE c
    /\ call' = [call EXCEPT ![c].pc = "locked"]
    /\ CallFrame

\* a.mu.Lock() returns: the call holds the lock.
MuLock(c) ==
    /\ Running
    /\ call[c].pc = "lock"
    /\ mu = 0
    /\ mu' = c
    /\ call' = [call EXCEPT ![c].pc = "locked"]
    /\ CallFrame

\* List runs its body under the lock.
ListBody(c) ==
    /\ Running
    /\ call[c].pc = "locked"
    /\ call[c].op = "List"
    /\ call' = [call EXCEPT ![c].pc = "unlock", ![c].out = ListResult(storage)]
    /\ UNCHANGED mu
    /\ CallFrame

\* Signers runs a.signers() under the lock.
SignersBody(c) ==
    /\ Running
    /\ call[c].pc = "locked"
    /\ call[c].op = "Signers"
    /\ \E build \in Outcomes :
          call' = [call EXCEPT ![c].pc = "unlock",
                               ![c].out = SignersResult(storage, build)]
    /\ UNCHANGED mu
    /\ CallFrame

\* SignWithFlagsBody working on the key file as it was when the agent
\* started, as if the descriptor were loaded once and kept.
SignWithFlagsBodyCached(c) ==
    /\ Running
    /\ call[c].pc = "locked"
    /\ call[c].op = "SignWithFlags"
    /\ \E build \in Outcomes, hw \in Outcomes :
          call' = [call EXCEPT
                     ![c].pc = "unlock",
                     ![c].out = SignWithFlagsResult(StartFile, call[c].key,
                                                    call[c].flags, build, hw)]
    /\ UNCHANGED mu
    /\ CallFrame

\* SignWithFlagsBody giving up when a.quit is closed.
SignWithFlagsBodyChecksQuit(c) ==
    /\ Running
    /\ call[c].pc = "locked"
    /\ call[c].op = "SignWithFlags"
    /\ \E build \in Outcomes, hw \in Outcomes :
          call' = [call EXCEPT
                     ![c].pc = "unlock",
                     ![c].out = IF quit
                                THEN Failed("agent is shutting down")
                                ELSE SignWithFlagsResult(storage, call[c].key,
                                                         call[c].flags, build, hw)]
    /\ UNCHANGED mu
    /\ CallFrame

\* SignWithFlagsBody calling the exported a.Signers(), which takes a.mu
\* itself, instead of a.signers(): the body goes on only once a.mu is free.
SignWithFlagsBodyLocksAgain(c) ==
    /\ Running
    /\ call[c].pc = "locked"
    /\ call[c].op = "SignWithFlags"
    /\ mu = 0
    /\ \E build \in Outcomes, hw \in Outcomes :
          call' = [call EXCEPT
                     ![c].pc = "unlock",
                     ![c].out = SignWithFlagsResult(storage, call[c].key,
                                                    call[c].flags, build, hw)]
    /\ UNCHANGED mu
    /\ CallFrame

\* SignWithFlags runs its body under the lock.
SignWithFlagsBody(c) ==
    /\ Running
    /\ call[c].pc = "locked"
    /\ call[c].op = "SignWithFlags"
    /\ \E build \in Outcomes, hw \in Outcomes :
          call' = [call EXCEPT
                     ![c].pc = "unlock",
                     ![c].out = SignWithFlagsResult(storage, call[c].key,
                                                    call[c].flags, build, hw)]
    /\ UNCHANGED mu
    /\ CallFrame

\* The deferred a.mu.Unlock() runs and the call returns to the dispatcher.
MuUnlock(c) ==
    /\ Running
    /\ call[c].pc = "unlock"
    /\ mu' = 0
    /\ call' = [call EXCEPT ![c] = Idle]
    /\ CallFrame

(***************************************************************************)
(* The operations that take no lock.                                       *)
(***************************************************************************)

\* A method that returns err at once: no lock, no state of the agent touched.
LockFree(c, err) ==
    /\ Ready(c)
    /\ ret' = err
    /\ UNCHANGED <<mu, quit, listener, wg, proc, serveVars, connVars, call,
                   storage, stopVars, waitPc>>

\* Agent.Close.
Close(c) == LockFree(c, "nil")

\* Add answering success, as RemoveAll does.
AddReturnsNil(c, key) == LockFree(c, "nil")

\* Agent.Add.
Add(c, key) == LockFree(c, ErrOperationUnsupported)

\* Agent.Remove.
Remove(c, key) == LockFree(c, ErrOperationUnsupported)

\* RemoveAll deleting the key file before it answers.
RemoveAllDeletesKey(c) ==
    /\ Ready(c)
    /\ ret' = "nil"
    /\ storage' = [kind |-> "unreadable", key |-> NoDescriptor]
    /\ UNCHANGED <<mu, quit, listener, wg, proc, serveVars, connVars, call,
                   stopVars, waitPc>>

\* Agent.RemoveAll returns a.Close().
RemoveAll(c) == LockFree(c, "nil")

\* Agent.Lock.
Lock(c, passphrase) == LockFree(c, ErrOperationUnsupported)

\* Agent.Unlock.
Unlock(c, passphrase) == LockFree(c, ErrOperationUnsupported)

\* Agent.Extension.
Extension(c) == LockFree(c, ErrExtensionUnsupported)


(***************************************************************************)
(* SocketListener: the accept loop (Agent.serve).                          *)
(***************************************************************************)

ServeFrame ==
    UNCHANGED <<mu, quit, listener, call, ret, storage, stopVars, waitPc>>

\* The next connection to arrive: connections are numbered in accept order.
NextConn(c) ==
    /\ conn[c] = "none"
    /\ \A d \in Conns : d < c => conn[d] # "none"

\* a.listener.Accept() returns a connection.
AcceptConn(c) ==
    /\ Running
    /\ servePc = "accept"
    /\ listener = "open"
    /\ NextConn(c)
    /\ conn' = [conn EXCEPT ![c] = "accepted"]
    /\ connOpen' = [connOpen EXCEPT ![c] = TRUE]
    /\ lateAccept' = (lateAccept \/ quit)
    /\ servePc' = "add"
    /\ UNCHANGED <<wg, proc, acceptErr, quitAtErr, connEnd, logged>>
    /\ ServeFrame

\* Spawn without a.wg.Add(1).
SpawnWithoutAdd(c) ==
    /\ Running
    /\ servePc = "add"
    /\ conn[c] = "accepted"
    /\ conn' = [conn EXCEPT ![c] = "serving"]
    /\ servePc' = "accept"
    /\ UNCHANGED <<wg, proc, acceptErr, quitAtErr, connOpen, connEnd, logged, lateAccept>>
    /\ ServeFrame

\* a.wg.Add(1) and the go statement: the handler task starts serveConn.
Spawn(c) ==
    /\ Running
    /\ servePc = "add"
    /\ conn[c] = "accepted"
    /\ wg' = wg + 1
    /\ conn' = [conn EXCEPT ![c] = "serving"]
    /\ servePc' = "accept"
    /\ UNCHANGED <<proc, acceptErr, quitAtErr, connOpen, connEnd, logged, lateAccept>>
    /\ ServeFrame

\* AcceptTemporary handled like any other Accept error.
AcceptTemporaryNotRetried ==
    /\ Running
    /\ servePc = "accept"
    /\ listener = "open"
    /\ servePc' = "select"
    /\ acceptErr' = "temporary"
    /\ quitAtErr' = quit
    /\ UNCHANGED <<wg, proc, connVars>>
    /\ ServeFrame

\* Accept fails with an error whose Temporary() is true: log and sleep.
AcceptTemporary ==
    /\ Running
    /\ servePc = "accept"
    /\ listener = "open"
    /\ servePc' = "sleep"
    /\ acceptErr' = "temporary"
    /\ quitAtErr' = quit
    /\ UNCHANGED <<wg, proc, connVars>>
    /\ ServeFrame

\* time.Sleep(1 * time.Second) is over: continue with the next Accept.
SleepDone ==
    /\ Running
    /\ servePc = "sleep"
    /\ servePc' = "accept"
    /\ UNCHANGED <<wg, proc, acceptErr, quitAtErr, connVars>>
    /\ ServeFrame

\* Accept fails with a non-temporary error: "closed" when the listener has
\* been closed, "other" for a failure of the open listener.
AcceptFail(e) ==
    /\ Running
    /\ servePc = "accept"
    /\ e = IF listener = "closed" THEN "closed" ELSE "other"
    /\ servePc' = "select"
    /\ acceptErr' = e
    /\ quitAtErr' = quit
    /\ UNCHANGED <<wg, proc, connVars>>
    /\ ServeFrame

\* SelectQuit returning without the deferred a.wg.Done().
SelectQuitWithoutDone ==
    /\ Running
    /\ servePc = "select"
    /\ quit
    /\ servePc' = "done"
    /\ UNCHANGED <<wg, proc, acceptErr, quitAtErr, connVars>>
    /\ ServeFrame

\* select: case <-a.quit: return, running the deferred a.wg.Done().
SelectQuit ==
    /\ Running
    /\ servePc = "select"
    /\ quit
    /\ servePc' = "done"
    /\ WgDone
    /\ UNCHANGED <<acceptErr, quitAtErr, connVars>>
    /\ ServeFrame

\* SelectDefault taken without looking at a.quit.
SelectDefaultUnconditional ==
    /\ Running
    /\ servePc = "select"
    /\ proc' = "fatal"
    /\ UNCHANGED <<wg, serveVars, connVars>>
    /\ ServeFrame

\* SelectDefault logging the error and going back to Accept.
SelectDefaultRetries ==
    /\ Running
    /\ servePc = "select"
    /\ ~quit
    /\ servePc' = "accept"
    /\ UNCHANGED <<wg, proc, acceptErr, quitAtErr, connVars>>
    /\ ServeFrame

\* select: default: log.Fatalln ends the process.
SelectDefault ==
    /\ Running
    /\ servePc = "select"
    /\ ~quit
    /\ proc' = "fatal"
    /\ UNCHANGED <<wg, serveVars, connVars>>
    /\ ServeFrame

(***************************************************************************)
(* ConnectionHandler: serveConn and the handler goroutine of serve.        *)
(***************************************************************************)

\* ServeConnEnd with log.Fatalln in place of log.Println.
ServeConnEndFatal(c, e) ==
    /\ Ready(c)
    /\ conn' = [conn EXCEPT ![c] = "done"]
    /\ connEnd' = [connEnd EXCEPT ![c] = e]
    /\ logged' = [logged EXCEPT ![c] = (e # "EOF")]
    /\ IF e # "EOF" THEN proc' = "fatal" /\ wg' = wg ELSE WgDone
    /\ UNCHANGED <<mu, quit, listener, serveVars, connOpen, lateAccept, call,
                   ret, storage, stopVars, waitPc>>

\* agent.ServeAgent returns e (io.EOF or another error); serveConn logs
\* every error but io.EOF and returns, and the goroutine calls a.wg.Done().
ServeConnEnd(c, e) ==
    /\ Ready(c)
    /\ conn' = [conn EXCEPT ![c] = "done"]
    /\ connEnd' = [connEnd EXCEPT ![c] = e]
    /\ logged' = [logged EXCEPT ![c] = (e # "EOF")]
    /\ WgDone
    /\ UNCHANGED <<mu, quit, listener, serveVars, connOpen, lateAccept, call,
                   ret, storage, stopVars, waitPc>>

(***************************************************************************)
(* LifecycleController: Stop, Wait and the SIGHUP handler loop.            *)
(***************************************************************************)

StopFrame ==
    UNCHANGED <<mu, wg, serveVars, connVars, call, ret, storage, nsig, waitPc>>

\* The operating system delivers SIGHUP: signal.Notify's channel has room
\* for one signal, a further one is dropped.
Signal ==
    /\ Running
    /\ nsig < MaxSignals
    /\ nsig' = nsig + 1
    /\ sigBuf' = 1
    /\ UNCHANGED <<mu, quit, listener, wg, proc, serveVars, connVars, call,
                   ret, storage, sigPc, stopReturned, waitPc>>

\* for range c: the handler goroutine receives a signal and calls a.Stop().
StopCall ==
    /\ Running
    /\ sigPc = "idle"
    /\ sigBuf = 1
    /\ sigBuf' = 0
    /\ sigPc' = "close_quit"
    /\ UNCHANGED <<quit, listener, proc, stopReturned>>
    /\ StopFrame

\* close(a.quit): closing a closed channel panics.
StopCloseQuit ==
    /\ Running
    /\ sigPc = "close_quit"
    /\ IF quit
       THEN proc' = "panic" /\ UNCHANGED <<quit, sigPc>>
       ELSE quit' = TRUE /\ sigPc' = "close_listener" /\ UNCHANGED proc
    /\ UNCHANGED <<listener, sigBuf, stopReturned>>
    /\ StopFrame

\* a.listener.Close().
StopCloseListener ==
    /\ Running
    /\ sigPc = "close_listener"
    /\ listener' = "closed"
    /\ sigPc' = "wait"
    /\ UNCHANGED <<quit, proc, sigBuf, stopReturned>>
    /\ StopFrame

\* StopWait without a.wg.Wait().
StopWithoutWait ==
    /\ Running
    /\ sigPc = "wait"
    /\ sigPc' = "idle"
    /\ stopReturned' = stopReturned + 1
    /\ UNCHANGED <<quit, listener, proc, sigBuf>>
    /\ StopFrame

\* a.wg.Wait() returns, Stop prints and returns to the handler loop.
StopWait ==
    /\ Running
    /\ sigPc = "wait"
    /\ wg = 0
    /\ sigPc' = "idle"
    /\ stopReturned' = stopReturned + 1
    /\ UNCHANGED <<quit, listener, proc, sigBuf>>
    /\ StopFrame

\* Wait returning without a.wg.Wait().
WaitWithoutJoin ==
    /\ Running
    /\ waitPc = "waiting"
    /\ waitPc' = "returned"
    /\ UNCHANGED <<mu, quit, listener, wg, proc, serveVars, connVars, call,
                   ret, storage, stopVars>>

\* Agent.Wait, called by runAgent: a.wg.Wait() returns.
Wait ==
    /\ Running
    /\ waitPc = "waiting"
    /\ wg = 0
    /\ waitPc' = "returned"
    /\ UNCHANGED <<mu, quit, listener, wg, proc, serveVars, connVars, call,
                   ret, storage, stopVars>>

(***************************************************************************)
(* The environment: the key file is replaced, removed or damaged.          *)
(***************************************************************************)

WriteKeyFile(f) ==
    /\ Running
    /\ f # storage
    /\ storage' = f
    /\ UNCHANGED <<mu, quit, listener, wg, proc, serveVars, connVars, call,
                   ret, stopVars, waitPc>>

\* The service core under connection churn, accept errors and signals, with
\* clients that list the key and try the unsupported operations.
Next ==
    \/ \E c \in Conns : AcceptConn(c)
    \/ \E c \in Conns : Spawn(c)
    \/ AcceptTemporary
    \/ SleepDone
    \/ \E e \in {"closed", "other"} : AcceptFail(e)
    \/ SelectQuit
    \/ SelectDefault
    \/ \E c \in Conns, e \in {"EOF", "error"} : ServeConnEnd(c, e)
    \/ \E c \in Conns : List(c)
    \/ \E c \in Conns : MuLock(c)
    \/ \E c \in Conns : ListBody(c)
    \/ \E c \in Conns : MuUnlock(c)
    \/ \E c \in Conns, key \in ReqKeys : Add(c, key)
    \/ \E c \in Conns, key \in ReqKeys : Remove(c, key)
    \/ \E c \in Conns, p \in Passphrases : Lock(c, p)
    \/ \E c \in Conns, p \in Passphrases : Unlock(c, p)
    \/ \E c \in Conns : Extension(c)
    \/ Signal
    \/ StopCall
    \/ StopCloseQuit
    \/ StopCloseListener
    \/ StopWait
    \/ Wait

Spec == Init /\ [][Next]_vars

\* The signing coordinator under every request of the capability set and a
\* key file that changes, with no signal delivered and no accept error.
NextSign ==
    \/ \E c \in Conns : AcceptConn(c)
    \/ \E c \in Conns : Spawn(c)
    \/ \E c \in Conns : List(c)
    \/ \E c \in Conns : Signers(c)
    \/ \E c \in Conns, key \in ReqKeys, flags \in Flags : SignWithFlags(c, key, flags)
    \/ \E c \in Conns, key \in ReqKeys : Sign(c, key)
    \/ \E c \in Conns : MuLock(c)
    \/ \E c \in Conns : ListBody(c)
    \/ \E c \in Conns : SignersBody(c)
    \/ \E c \in Conns : SignWithFlagsBody(c)
    \/ \E c \in Conns : MuUnlock(c)
    \/ \E c \in Conns : Close(c)
    \/ \E c \in Conns : RemoveAll(c)
    \/ \E f \in Files : WriteKeyFile(f)

\* The agent is started on a key file that holds KeyA; every other content
\* of the file is the work of WriteKeyFile.
InitSign == Init /\ storage = StartFile

SpecSign == InitSign /\ [][NextSign]_vars

\* The scheduling of the key-bearing calls. A goroutine that can run its body
\* or its deferred Unlock does so (weak fairness: the storage and hardware
\* calls of a body terminate). A goroutine blocked in a.mu.Lock() gets the
\* lock if it is free again and again (strong fairness): sync.Mutex hands
\* the lock to the longest waiter once that waiter has been starved.
FairCalls ==
    \A c \in Conns :
        /\ SF_vars(MuLock(c))
        /\ WF_vars(ListBody(c) \/ SignersBody(c) \/ SignWithFlagsBody(c))
        /\ WF_vars(MuUnlock(c))

\* The key-bearing calls of the connections on a key file that changes.
NextCalls ==
    \/ \E c \in Conns : AcceptConn(c)
    \/ \E c \in Conns : Spawn(c)
    \/ \E c \in Conns : List(c)
    \/ \E c \in Conns : Signers(c)
    \/ \E c \in Conns, key \in StoredKeys : SignWithFlags(c, key, 0)
    \/ \E c \in Conns : MuLock(c)
    \/ \E c \in Conns : ListBody(c)
    \/ \E c \in Conns : SignersBody(c)
    \/ \E c \in Conns : SignWithFlagsBody(c)
    \/ \E c \in Conns : MuUnlock(c)
    \/ \E f \in Files : WriteKeyFile(f)

SpecCallsFair == InitSign /\ [][NextCalls]_vars /\ FairCalls

\* Clients that list and sign while SIGHUP is delivered and Stop runs, with
\* accept failures but no transient ones.
NextShutdown ==
    \/ \E c \in Conns : AcceptConn(c)
    \/ \E c \in Conns : Spawn(c)
    \/ \E e \in {"closed", "other"} : AcceptFail(e)
    \/ SelectQuit
    \/ SelectDefault
    \/ \E c \in Conns : ServeConnEnd(c, "EOF")
    \/ \E c \in Conns : List(c)
    \/ \E c \in Conns, key \in ReqKeys : SignWithFlags(c, key, 0)
    \/ \E c \in Conns : MuLock(c)
    \/ \E c \in Conns : ListBody(c)
    \/ \E c \in Conns : SignWithFlagsBody(c)
    \/ \E c \in Conns : MuUnlock(c)
    \/ Signal
    \/ StopCall
    \/ StopCloseQuit
    \/ StopCloseListener
    \/ StopWait

SpecShutdown == Init /\ [][NextShutdown]_vars


(***************************************************************************)
(* Properties.                                                             *)
(***************************************************************************)

\* The connections whose call is inside the body of a key-bearing operation.
InBody == {c \in Conns : call[c].pc \in {"locked", "unlock"}}

\* C1: at every instant at most one task is executing the body of a
\* key-bearing operation (List, Sign, SignWithFlags, Signers), and that task
\* is the holder of a.mu.
MutualExclusion ==
    /\ Cardinality(InBody) <= 1
    /\ \A c \in InBody : mu = c

\* C1 witness: one call is inside SignWithFlags while another connection's
\* List call is blocked on the lock.
MutualExclusionWitness ==
    \E c, d \in Conns :
        /\ call[c].op = "SignWithFlags" /\ call[c].pc = "locked"
        /\ call[d].op = "List" /\ call[d].pc = "lock"

\* C2: once Stop() has returned, the accept loop and every connection handler
\* ever spawned have completed, no key-bearing operation is in progress and
\* the lock is free; this holds in every later state too.
StopJoinsEveryTask ==
    stopReturned > 0 =>
        /\ servePc = "done"
        /\ \A c \in Conns : conn[c] \in {"none", "done"} /\ call[c].pc = "idle"
        /\ mu = 0

\* C2 witness: Stop() has returned after a connection was accepted between
\* close(a.quit) and a.listener.Close(), and every accepted connection's
\* handler is done.
StopJoinsEveryTaskWitness ==
    /\ stopReturned > 0
    /\ lateAccept
    /\ \A c \in Conns : conn[c] = "done"

\* C3: a further invocation of Stop() on the same Agent (a second SIGHUP) is
\* a harmless no-op: it never crashes the process.
StopIsIdempotent == proc # "panic"

\* C4: whenever Accept fails because Stop() closed the listener, the accept
\* loop finds a.quit closed, and the fatal branch is only ever taken for a
\* failure of the open listener with a.quit not closed.
AcceptErrorOnStopIsClean ==
    /\ (servePc = "select" /\ acceptErr = "closed") => quit
    /\ proc = "fatal" => (acceptErr = "other" /\ ~quit /\ listener = "open")

\* C4 witness: Accept failed because the listener was closed and the accept
\* loop has returned, with the process alive.
AcceptErrorOnStopIsCleanWitness ==
    /\ acceptErr = "closed"
    /\ servePc = "done"
    /\ proc = "running"

\* C5: after Stop() has returned the listener is closed and the join group
\* is empty, and no step accepts a connection or spawns a handler.
NothingAcceptedAfterStop ==
    /\ [](stopReturned > 0 => (listener = "closed" /\ wg = 0))
    /\ [][stopReturned > 0 => (conn' = conn /\ connOpen' = connOpen)]_vars

\* C5 witness: Stop() has returned while a client has not been accepted yet.
NothingAcceptedAfterStopWitness ==
    /\ stopReturned > 0
    /\ \E c \in Conns : conn[c] = "none"
    /\ \E c \in Conns : conn[c] = "done"

\* A step in which the handler of c ends with a protocol error.
EndsWithError(c) ==
    /\ conn[c] = "serving"
    /\ conn'[c] = "done"
    /\ connEnd'[c] = "error"

\* C6: a handler ending with a protocol error changes neither the shutdown
\* signal, the listener, the accept loop, the lock (which it does not hold),
\* the process nor any other connection's handler and call.
ProtocolErrorIsIsolated ==
    [][\A c \in Conns :
          EndsWithError(c) =>
              /\ UNCHANGED <<quit, listener, servePc, acceptErr, quitAtErr, mu, proc>>
              /\ mu # c
              /\ \A d \in Conns \ {c} :
                    /\ conn'[d] = conn[d]
                    /\ call'[d] = call[d]
                    /\ connOpen'[d] = connOpen[d]]_vars

\* C6 witness: a connection has ended with a protocol error while the
\* shutdown signal is unset, the listener is open, the accept loop is
\* accepting and another handler is inside a key-bearing call.
ProtocolErrorIsIsolatedWitness ==
    \E c, d \in Conns :
        /\ connEnd[c] = "error"
        /\ conn[d] = "serving" /\ call[d].pc = "locked"
        /\ ~quit /\ listener = "open" /\ servePc = "accept" /\ proc = "running"

\* C7: once a handler that ended with a protocol error has left the join
\* group, the error has been logged and the agent has closed the connection.
ConnectionClosedWhenHandlerDone ==
    \A c \in Conns :
        (conn[c] = "done" /\ connEnd[c] = "error") => (logged[c] /\ ~connOpen[c])

\* A step in which the body of SignWithFlags runs for connection c.
SignStep(c) ==
    /\ call[c].op = "SignWithFlags"
    /\ call[c].pc = "locked"
    /\ call'[c].pc = "unlock"

\* The blob of the requested key is the blob of the key in the key file.
BlobMatches(c) ==
    /\ storage.kind = "key"
    /\ <<storage.key.public.type>> \o storage.key.public.data
         = <<call[c].key.type>> \o call[c].key.data

\* C8 as stated: with a key in storage, SignWithFlags (and Sign) returns a
\* signature if and only if the requested blob equals the stored key's blob,
\* and for every other key the no-match error with the hardware signer not
\* invoked.
SignsIffBlobMatches ==
    [][\A c \in Conns :
          (SignStep(c) /\ storage.kind = "key") =>
              LET o == call'[c].out IN
              /\ (o.sig # NoSig) <=> BlobMatches(c)
              /\ ~BlobMatches(c) => (o.err = ErrNoMatch /\ ~o.hw)]_vars

\* C8 amended: SignWithFlags returns a signature only for a requested blob
\* equal to the stored key's blob, and then the signature is made for the
\* requested key's type over the stored key; on equal blobs it fails only with
\* the signer-preparation error or the hardware signer's error; for any other
\* key it returns no signature, the hardware signer is not invoked and the
\* error is the no-match error unless preparing the signer failed. Sign runs
\* SignWithFlags with flags 0.
SignsOnlyWhenBlobMatches ==
    [][\A c \in Conns :
          SignStep(c) =>
              LET o == call'[c].out IN
              /\ (o.sig # NoSig) =>
                    /\ BlobMatches(c)
                    /\ o.err = "nil"
                    /\ o.hw
                    /\ o.sig = [alg |-> call[c].key.type,
                                blob |-> <<storage.key.public.type>>
                                           \o storage.key.public.data]
              /\ o.hw => BlobMatches(c)
              /\ (storage.kind = "key" /\ ~BlobMatches(c)) =>
                    /\ o.sig = NoSig
                    /\ o.err \in {ErrNoMatch, ErrPrepare}
              /\ BlobMatches(c) =>
                    /\ o.err \in {"nil", ErrPrepare, ErrSign}
                    /\ (o.err = "nil") <=> (o.sig # NoSig)
                    /\ (o.err # ErrPrepare) => o.hw
              /\ call[c].via = "Sign" => call[c].flags = 0
              /\ UNCHANGED <<mu, storage>>]_vars

\* C8 witness: a Sign call for the stored key is about to return a signature
\* made by the hardware signer.
SignsOnlyWhenBlobMatchesWitness ==
    \E c \in Conns :
        /\ call[c].via = "Sign"
        /\ call[c].pc = "unlock"
        /\ call[c].out.sig # NoSig
        /\ call[c].out.hw

\* A step in which connection c calls Add, Remove, Lock or Unlock.
UnsupportedStep(c) ==
    \/ \E key \in ReqKeys : Add(c, key) \/ Remove(c, key)
    \/ \E p \in Passphrases : Lock(c, p) \/ Unlock(c, p)

\* C9: Add, Remove, Lock and Unlock return the "operation unsupported" error
\* for every input in every agent state, and change neither the lock, the key
\* file, the listener, the shutdown signal, the join group nor any call.
UnsupportedOpsChangeNothing ==
    [][\A c \in Conns :
          UnsupportedStep(c) =>
              /\ ret' = ErrOperationUnsupported
              /\ UNCHANGED <<mu, storage, listener, quit, wg, proc, call, conn>>]_vars

\* C9 witness: an unsupported operation has returned its error while the
\* shutdown signal is set, another connection's call holds the lock and a
\* handler can still issue requests.
UnsupportedOpsChangeNothingWitness ==
    /\ ret = ErrOperationUnsupported
    /\ quit
    /\ \E c, d \in Conns : mu = d /\ c # d /\ Ready(c)

\* A step in which the body of List runs for connection c.
ListStep(c) ==
    /\ call[c].op = "List"
    /\ call[c].pc = "locked"
    /\ call'[c].pc = "unlock"

ReturnStep(c) ==
    /\ call[c].pc = "unlock"
    /\ call'[c].pc = "idle"

\* C11: when the key file cannot be read or deserialized, List and
\* SignWithFlags return that failure with no record and no signature, the
\* hardware signer is not invoked, and once the failed call has returned the
\* connection is still open and its handler is ready for the next request.
KeyLoadFailureIsReturned ==
    [][\A c \in Conns :
          /\ ((ListStep(c) \/ SignStep(c)) /\ storage.kind # "key") =>
                LET o == call'[c].out IN
                /\ o.err = (IF storage.kind = "unreadable" THEN "read" ELSE "unmarshal")
                /\ o.keys = <<>>
                /\ o.sig = NoSig
                /\ ~o.hw
                /\ conn'[c] = "serving" /\ connOpen'[c]
          /\ (ReturnStep(c) /\ call[c].out.err # "nil") =>
                /\ conn'[c] = "serving" /\ connOpen'[c]
                /\ call'[c] = Idle
                /\ mu' = 0]_vars

\* C11 witness: a SignWithFlags call is about to return the deserialization
\* failure of a damaged key file.
KeyLoadFailureIsReturnedWitness ==
    \E c \in Conns :
        /\ call[c].via = "SignWithFlags"
        /\ call[c].pc = "unlock"
        /\ call[c].out.err = "unmarshal"
        /\ storage.kind = "corrupt"

\* C12: a transient Accept error leads to the sleep and the sleep to the next
\* Accept; neither step ends the process, touches the listener or the join
\* group, or accepts or spawns anything.
TransientAcceptErrorIsRetried ==
    [][/\ AcceptTemporary =>
            /\ servePc' = "sleep"
            /\ UNCHANGED <<listener, quit, wg, proc, conn, connOpen>>
       /\ (servePc = "sleep" /\ servePc' # "sleep") =>
            /\ servePc' = "accept"
            /\ UNCHANGED <<listener, quit, wg, proc, conn, connOpen>>]_vars

\* C12 witness: after a transient error Accept was called again and
\* returned a connection.
TransientAcceptErrorIsRetriedWitness ==
    /\ acceptErr = "temporary"
    /\ servePc = "add"
    /\ proc = "running"


\* C13 as stated: once Accept has failed with a non-transient error while
\* a.quit was not closed, the accept loop neither retries nor returns; it
\* stays at the select until the process is gone.
FatalWheneverErrorPrecedesQuit ==
    (acceptErr = "other" /\ ~quitAtErr) => servePc = "select"

\* C13: after a non-transient Accept error the loop never calls Accept
\* again; when a.quit is still open at the select the loop's step ends the
\* process, and then nothing is accepted or served any more; the loop
\* returns from the select only when a.quit is closed by then.
FatalWhenQuitUnsetAtSelect ==
    /\ [](acceptErr \in {"other", "closed"} => servePc \in {"select", "done"})
    /\ [][/\ SelectDefault => (proc' = "fatal" /\ servePc' = "select")
          /\ (servePc = "select" /\ ~quit) => servePc' = "select"
          /\ (servePc = "select" /\ servePc' # "select") => (quit /\ servePc' = "done")
          /\ proc = "fatal" => UNCHANGED vars]_vars

\* C13 witness: the process has been ended by a non-transient Accept error
\* while a connection was being served.
FatalWhenQuitUnsetAtSelectWitness ==
    /\ proc = "fatal"
    /\ acceptErr = "other"
    /\ \E c \in Conns : conn[c] = "serving"


\* C14: Wait has returned only when the accept loop has returned and every
\* handler has finished; the step in which Wait returns leaves a.quit, the
\* listener and everything else of the agent as they are, so a returned Wait
\* means that a Stop() has closed a.quit before.
WaitOnlyJoins ==
    /\ [](waitPc = "returned" =>
            /\ servePc = "done"
            /\ \A c \in Conns : conn[c] \in {"none", "done"}
            /\ wg = 0
            /\ quit /\ nsig > 0)
    /\ [][waitPc' # waitPc =>
            /\ waitPc = "waiting" /\ waitPc' = "returned"
            /\ UNCHANGED <<quit, listener, wg, proc, servePc, conn, connOpen,
                           sigPc, stopReturned>>]_vars
    /\ []((~quit /\ proc = "running") => waitPc = "waiting")

\* C14 witness: Wait has returned after a shutdown that had to join the
\* handler of a connection.
WaitOnlyJoinsWitness ==
    /\ waitPc = "returned"
    /\ \E c \in Conns : conn[c] = "done"


\* C15: RemoveAll does what Close does: it answers success and changes
\* nothing else, so the key file, the lock, the calls in progress, the
\* listener, a.quit and the connections stay as they are, and a List that
\* follows a successful answer still returns the one record of the stored key.
RemoveAllRemovesNothing ==
    [][\A c \in Conns :
          /\ RemoveAll(c) <=> Close(c)
          /\ RemoveAll(c) =>
                /\ ret' = "nil"
                /\ UNCHANGED <<storage, mu, call, listener, quit, wg, proc,
                               conn, connOpen, servePc>>
          /\ (ListStep(c) /\ ret = "nil" /\ storage.kind = "key") =>
                /\ Len(call'[c].out.keys) = 1
                /\ call'[c].out.keys[1].Blob = <<storage.key.public.type>>
                                                 \o storage.key.public.data]_vars

\* C15 witness: after RemoveAll or Close has answered success, a List is
\* about to return the record of the stored key.
RemoveAllRemovesNothingWitness ==
    /\ ret = "nil"
    /\ storage.kind = "key"
    /\ \E c \in Conns :
          /\ call[c].op = "List"
          /\ call[c].pc = "unlock"
          /\ Len(call[c].out.keys) = 1

\* What List and SignWithFlags make of the key file as it is in the step in
\* which their body runs, whatever it held before; the lock is held.
ReadsCurrentKey(c) ==
    /\ (ListStep(c) \/ SignStep(c)) => (mu = c /\ storage' = storage)
    /\ ListStep(c) =>
          call'[c].out.keys =
              IF storage.kind = "key"
              THEN <<[Format |-> storage.key.public.type,
                      Blob |-> <<storage.key.public.type>>
                                 \o storage.key.public.data]>>
              ELSE <<>>
    /\ SignStep(c) =>
          LET o == call'[c].out IN
          /\ (o.sig # NoSig) =>
                /\ BlobMatches(c)
                /\ o.sig.blob = <<storage.key.public.type>>
                                  \o storage.key.public.data
          /\ (storage.kind = "key" /\ ~BlobMatches(c)) => (o.sig = NoSig /\ ~o.hw)

\* C16 as stated: List and SignWithFlags work on the key file as it is when
\* they run under the lock, and a request for a key that is not (or no
\* longer) the stored one fails with the no-match error.
OldKeyFailsWithNoMatch ==
    [][\A c \in Conns :
          /\ ReadsCurrentKey(c)
          /\ (SignStep(c) /\ storage.kind = "key" /\ ~BlobMatches(c)) =>
                call'[c].out.err = ErrNoMatch]_vars

\* C16: List and SignWithFlags work on the key file as it is when they run
\* under the lock; after the key has been replaced List returns the new key
\* only and only the new key is signed for, and a request for the old key
\* fails with the no-match error unless preparing the signer of the new key
\* fails first.
KeyIsReadAnewUnderLock ==
    [][\A c \in Conns :
          /\ ReadsCurrentKey(c)
          /\ (SignStep(c) /\ storage.kind = "key" /\ ~BlobMatches(c)) =>
                call'[c].out.err \in {ErrNoMatch, ErrPrepare}]_vars

\* C16 witness: the key file started with KeyA and now holds KeyB; a request
\* to sign for KeyA is about to fail with the no-match error.
KeyIsReadAnewUnderLockWitness ==
    /\ storage = [kind |-> "key", key |-> Descriptor(KeyB)]
    /\ \E c \in Conns :
          /\ call[c].op = "SignWithFlags"
          /\ call[c].pc = "unlock"
          /\ call[c].key = KeyA
          /\ call[c].out.err = ErrNoMatch


\* C17: a.quit and the closed listener play no part in List and
\* SignWithFlags. A handler that is serving can start a call whether or not
\* shutdown has been signalled, a call in flight can always take its next
\* step (the lock once it is free, the body, the return), a call changes
\* only by taking that step, and the result of a body run after a.quit was
\* closed is the result the same request has on the same key file without
\* shutdown.
ShutdownLeavesCallsAlone ==
    /\ [](\A c \in Conns :
            (proc = "running" /\ conn[c] = "serving") =>
               /\ call[c].pc = "idle" =>
                     (ENABLED List(c) /\ ENABLED SignWithFlags(c, KeyA, 0))
               /\ (call[c].pc = "lock" /\ mu = 0) => ENABLED MuLock(c)
               /\ call[c].pc = "locked" =>
                     ENABLED (ListBody(c) \/ SignWithFlagsBody(c))
               /\ call[c].pc = "unlock" => ENABLED MuUnlock(c))
    /\ [][\A c \in Conns :
            /\ (quit /\ ListStep(c)) =>
                  call'[c].out = ListResult(storage)
            /\ (quit /\ SignStep(c)) =>
                  \E build \in Outcomes, hw \in Outcomes :
                      call'[c].out = SignWithFlagsResult(storage, call[c].key,
                                                         call[c].flags, build, hw)
            /\ (call'[c] # call[c] /\ call[c].pc # "idle") =>
                  /\ <<call[c].pc, call'[c].pc>> \in
                        {<<"lock", "locked">>, <<"locked", "unlock">>,
                         <<"unlock", "idle">>}
                  /\ UNCHANGED <<conn, connOpen, quit, listener>>]_vars

\* C17 witness: Stop has closed a.quit and the listener and is waiting for
\* the handlers, and a SignWithFlags call is about to return a signature.
ShutdownLeavesCallsAloneWitness ==
    /\ quit
    /\ listener = "closed"
    /\ sigPc = "wait"
    /\ \E c \in Conns :
          /\ call[c].op = "SignWithFlags"
          /\ call[c].pc = "unlock"
          /\ call[c].out.sig # NoSig


\* C18: the join-group counter is one for the accept loop until it has
\* returned plus one for every handler that was spawned and has not
\* finished; it is never negative, no Done finds it at zero, and once it is
\* zero it stays zero.
CounterCountsLiveTasks ==
    /\ [](/\ wg = (IF servePc = "done" THEN 0 ELSE 1)
                    + Cardinality({c \in Conns : conn[c] = "serving"})
          /\ wg >= 0
          /\ proc # "panic" \/ quit)
    /\ [][/\ wg = 0 => wg' = 0
          /\ wg' > wg => (wg' = wg + 1 /\ servePc = "add" /\ wg > 0)
          /\ wg' < wg => wg' = wg - 1]_vars

\* C18 witness: the counter has come down to zero after the accept loop and
\* the handlers of all connections have finished.
CounterCountsLiveTasksWitness ==
    /\ wg = 0
    /\ servePc = "done"
    /\ \A c \in Conns : conn[c] = "done"


\* The next statement of a Stop() in progress can be executed.
StopCanStep ==
    ENABLED (StopCloseQuit \/ StopCloseListener \/ StopWait)

\* C19: Stop closes no accepted connection; it cannot return while a
\* connection that was accepted has not ended or the accept loop has not
\* returned, and a Stop() in progress always goes on to return: unless the
\* process was ended by a fatal Accept error, it is either able to execute
\* its next statement or is waiting for the accept loop or a handler that is
\* still there.
StopReturnsOnceClientsEnd ==
    /\ \A c \in Conns :
          (conn[c] \in {"accepted", "serving"} /\ quit) => connOpen[c]
    /\ (sigPc = "wait" /\ (servePc # "done"
                           \/ \E c \in Conns : conn[c] = "serving"))
          => ~ENABLED StopWait
    /\ sigPc # "idle" =>
          \/ proc = "fatal"
          \/ sigPc = "wait" /\ wg > 0
          \/ proc = "running" /\ StopCanStep


\* C20: a.mu is held by connection c exactly while a key-bearing call of c
\* is between its Lock and its deferred Unlock; the lock is taken only when
\* it is free, every return of List, Signers and SignWithFlags, with or
\* without an error, releases it, and every key-bearing call that has been
\* started returns.
LockIsAlwaysReleased ==
    /\ [](/\ mu \in {0} \cup Conns
          /\ \A c \in Conns : (mu = c) <=> (call[c].pc \in {"locked", "unlock"}))
    /\ [][\A c \in Conns :
            /\ (call[c].pc = "lock" /\ call'[c].pc # "lock") =>
                  (mu = 0 /\ mu' = c /\ call'[c].pc = "locked")
            /\ ReturnStep(c) => (mu = c /\ mu' = 0)]_vars
    /\ \A c \in Conns : (call[c].pc # "idle") ~> (call[c].pc = "idle")

\* C20 witness: a SignWithFlags call is about to return the error of the
\* signer preparation, still holding the lock another connection's call is
\* waiting for.
LockIsAlwaysReleasedWitness ==
    \E c, d \in Conns :
        /\ call[c].op = "SignWithFlags"
        /\ call[c].pc = "unlock"
        /\ call[c].out.err = ErrPrepare
        /\ mu = c
        /\ call[d].pc = "lock"

====
